---------------------------- MODULE Spec2Model ----------------------------
(***************************************************************************)
(* A state-machine model of the crypto-news service (src/main.py,          *)
(* src/deepseek_client.py, src/database.py, src/models.py, src/config.py). *)
(*                                                                         *)
(* Conventions                                                             *)
(*   - a Python str is a sequence of one-character strings;                *)
(*   - an Optional value is a sequence of length <= 1: None is << >> and   *)
(*     a present value x is <<x>>;                                         *)
(*   - a sentiment score is a fixed-point number in tenths (0.5 is 5);     *)
(*     an average is in units of 1e-4;                                     *)
(*   - time is in hours.                                                   *)
(***************************************************************************)
EXTENDS Integers, Sequences, FiniteSets, TLC

VARIABLES
    store,                \* the newsitem table: a set of rows
    nextId,               \* the table's AUTO_INCREMENT counter
    now,                  \* datetime.utcnow(), in hours
    enable_ai_analysis,   \* settings.enable_ai_analysis (fixed after startup)
    tasks,                \* the background cleanup passes, one slot per ingestion
    resp,                 \* the response the running handler has produced,
                          \* NoResponse once it is sent
    ingested              \* history: what was submitted for each live row

vars == <<store, nextId, now, enable_ai_analysis, tasks, resp, ingested>>

-----------------------------------------------------------------------------
(* Bounds of the model *)

MaxItems == 3
\* the rows ingested under Spec, SpecIngest and SpecList
StoreItems == 2
IngestItems == 1
ListItems == 2
CleanupItems == 2
MaxTicks == 2
MaxPage == 3
MaxPageSize == 2

(* Program constants *)

news_retention_hours == 24
major_news_threshold_low == 2
major_news_threshold_high == 8
SummaryLimit == 200
DefaultScore == 5
PositiveAbove == 6
NegativeBelow == 4
ScoreMin == 0
ScoreMax == 10

\* The clock advances by a retention window at a time, so that a row can be
\* younger than, exactly at, and older than the cutoff.
TickHours == news_retention_hours

-----------------------------------------------------------------------------
(* Optional values *)

None == << >>
Some(x) == <<x>>
IsNone(o) == o = << >>
Get(o) == o[1]

(* Strings *)

Lower(c) ==
    CASE c = "B" -> "b"
      [] c = "T" -> "t"
      [] c = "C" -> "c"
      [] c = "E" -> "e"
      [] c = "H" -> "h"
      [] c = "Z" -> "z"
      [] OTHER -> c

LowerStr(s) == [i \in 1..Len(s) |-> Lower(s[i])]

\* t occurs in s as a contiguous substring
Contains(s, t) ==
    \E i \in 0..(Len(s) - Len(t)) : SubSeq(s, i + 1, i + Len(t)) = t

\* MySQL  col LIKE '%term%'  under the table's case-insensitive collation
Like(col, term) == Contains(LowerStr(col), LowerStr(term))

\* Python s[:n]
Prefix(s, n) == SubSeq(s, 1, IF Len(s) < n THEN Len(s) ELSE n)


-----------------------------------------------------------------------------
(* Floats as Python sees them: a number (in tenths) or NaN; every ordering *)
(* comparison with NaN is False.                                           *)

Num(v) == [kind |-> "num", v |-> v]
NaN == [kind |-> "nan", v |-> 0]

FLt(a, b) == a.kind = "num" /\ b.kind = "num" /\ a.v < b.v
FLe(a, b) == a.kind = "num" /\ b.kind = "num" /\ a.v <= b.v

\* Python min(a, b) / max(a, b): the first argument unless the second is
\* strictly smaller / greater
PyMin(a, b) == IF FLt(b, a) THEN b ELSE a
PyMax(a, b) == IF FLt(a, b) THEN b ELSE a

(* JSON text of the mentioned_coins column, as a sequence of tokens *)

RECURSIVE JsonItems(_)
JsonItems(coins) ==
    IF Len(coins) = 0 THEN << >>
    ELSE IF Len(coins) = 1 THEN << <<"str", coins[1]>> >>
    ELSE << <<"str", coins[1]>>, <<",">> >> \o JsonItems(Tail(coins))

\* json.dumps(coins, ensure_ascii=False)
set_mentioned_coins_list(coins) == << <<"[">> >> \o JsonItems(coins) \o << <<"]">> >>

RECURSIVE ParseItems(_)
\* the elements of a comma-separated token list, or <<"error">> on a
\* malformed one
ParseItems(toks) ==
    IF Len(toks) = 0 THEN << >>
    ELSE IF toks[1][1] # "str" THEN <<"error">>
    ELSE IF Len(toks) = 1 THEN <<toks[1][2]>>
    ELSE IF toks[2] # <<",">> \/ Len(toks) = 2 THEN <<"error">>
    ELSE LET rest == ParseItems(SubSeq(toks, 3, Len(toks)))
         IN  IF rest = <<"error">> THEN rest ELSE <<toks[1][2]>> \o rest

\* json.loads(self.mentioned_coins), [] on a decode error
get_mentioned_coins_list(text) ==
    IF Len(text) < 2 \/ text[1] # <<"[">> \/ text[Len(text)] # <<"]">> THEN << >>
    ELSE LET items == ParseItems(SubSeq(text, 2, Len(text) - 1))
         IN  IF items = <<"error">> THEN << >> ELSE items

-----------------------------------------------------------------------------
(* The classifier client, DeepSeekClient.analyze_news *)

RequiredFields == {"summary", "sentiment", "sentiment_score", "mentioned_coins"}
CanonicalSentiments == {"positive", "negative", "neutral"}

Raise == [ok |-> FALSE]

\* float(x) of a raw JSON score: a number, NaN, or a numeric string
ToFloat(raw) == IF raw.kind = "nan" THEN NaN ELSE Num(raw.v)

\* the label inferred from a (float) score
InferSentiment(score) ==
    IF FLt(Num(PositiveAbove), score) THEN "positive"
    ELSE IF FLt(score, Num(NegativeBelow)) THEN "negative"
    ELSE "neutral"

\* max(0.0, min(1.0, score))
Clamp(score) == PyMax(Num(ScoreMin), PyMin(Num(ScoreMax), score))

\* variant: the required fields are not checked
analyze_news_unvalidated(api) ==
    IF api.kind # "json" THEN Raise
    ELSE [ok |-> TRUE, summary |-> api.summary, sentiment |-> "neutral",
          sentiment_score |-> Num(DefaultScore), mentioned_coins |-> << >>]

\* api is what the remote call produced: a transport error, a body that is
\* not JSON, or a JSON object with some fields.
analyze_news(api) ==
    IF api.kind # "json" THEN Raise
    ELSE IF ~(RequiredFields \subseteq api.fields) THEN Raise
    ELSE LET raw == api.sentiment_score
             nonstd == api.sentiment \notin CanonicalSentiments
         IN  \* a str score cannot be compared with 0.6: TypeError
             IF nonstd /\ raw.kind = "str" THEN Raise
             ELSE LET sentiment == IF nonstd THEN InferSentiment(ToFloat(raw))
                                   ELSE api.sentiment
                      score == ToFloat(raw)
                      inRange == FLe(Num(ScoreMin), score) /\ FLe(score, Num(ScoreMax))
                  IN  [ok |-> TRUE,
                       summary |-> api.summary,
                       sentiment |-> sentiment,
                       sentiment_score |-> IF inRange THEN raw ELSE Clamp(score),
                       mentioned_coins |-> IF api.mentioned_coins.is_list
                                           THEN api.mentioned_coins.v ELSE << >>]

-----------------------------------------------------------------------------
(* State *)

Ids == 1..MaxItems

\* A background pass: where it stands (idle: not scheduled, or finished
\* with its commit; failed: ended in its except branch), and its locals
\* cutoff_time and old_news once it has run its SELECT.
IdleTask == [pc |-> "idle", old |-> {}, cutoff_time |-> None]

NoResponse == [op |-> "none", code |-> 0]

\* handlers run one at a time on the event loop, and a background pass
\* starts after the response is sent
Idle == resp = NoResponse

\* the classifier is not called when AI analysis is disabled
NotCalled == [kind |-> "not_called"]

Init ==
    /\ store = {}
    /\ nextId = 1
    /\ now = 0
    /\ enable_ai_analysis \in BOOLEAN
    /\ tasks = [t \in Ids |-> IdleTask]
    /\ resp = NoResponse
    /\ ingested = << >>

-----------------------------------------------------------------------------
(* POST /push_news *)

\* variant: a score on a threshold counts as major
IsMajorInclusive(score) ==
    \/ FLe(score, Num(major_news_threshold_low))
    \/ FLe(Num(major_news_threshold_high), score)

\* the major-news rule of push_news, on a float score
IsMajor(score) ==
    \/ FLt(score, Num(major_news_threshold_low))
    \/ FLt(Num(major_news_threshold_high), score)

\* variant: the summary keeps one character too many
DefaultAnalysisOffByOne(content) ==
    [ok |-> TRUE,
     summary |-> Prefix(content, SummaryLimit + 1),
     sentiment |-> "neutral",
     sentiment_score |-> Num(DefaultScore),
     mentioned_coins |-> << >>]

\* the values push_news uses when AI analysis is disabled
DefaultAnalysis(content) ==
    [ok |-> TRUE,
     summary |-> IF Len(content) > SummaryLimit THEN Prefix(content, SummaryLimit)
                 ELSE content,
     sentiment |-> "neutral",
     sentiment_score |-> Num(DefaultScore),
     mentioned_coins |-> << >>]

PushError(req, calls) ==
    [op |-> "push_news", code |-> 500, id |-> 0, calls |-> calls, req |-> req]

\* the row push_news builds; received_at is NewsItem's default_factory
NewRow(req, analysis) ==
    [id |-> nextId,
     title |-> req.title,
     original_content |-> req.content,
     source_url |-> req.source_url,
     received_at |-> now,
     summary |-> analysis.summary,
     sentiment |-> analysis.sentiment,
     sentiment_score |-> analysis.sentiment_score.v,
     mentioned_coins |-> set_mentioned_coins_list(analysis.mentioned_coins),
     is_major |-> IsMajor(analysis.sentiment_score)]

\* api: what the classifier call produces; dbOk: whether the commit succeeds
push_news(title, content, source_url, api, dbOk) ==
    /\ Idle
    /\ nextId <= MaxItems
    /\ LET req == [title |-> title, content |-> content,
                   source_url |-> source_url, api |-> api]
           calls == IF enable_ai_analysis THEN 1 ELSE 0
           analysis == IF enable_ai_analysis THEN analyze_news(api)
                       ELSE DefaultAnalysis(content)
       IN  IF ~analysis.ok
           THEN \* the classifier raised: rollback, 500
                /\ resp' = PushError(req, calls)
                /\ UNCHANGED <<store, nextId, tasks, ingested>>
           ELSE IF analysis.sentiment_score.kind = "str"
           THEN \* str < float in the major-news test: TypeError, 500
                /\ resp' = PushError(req, calls)
                /\ UNCHANGED <<store, nextId, tasks, ingested>>
           ELSE IF ~dbOk
           THEN \* the commit failed: rollback, 500
                /\ resp' = PushError(req, calls)
                /\ UNCHANGED <<store, nextId, tasks, ingested>>
           ELSE /\ store' = store \cup {NewRow(req, analysis)}
                /\ nextId' = nextId + 1
                /\ tasks' = [tasks EXCEPT ![nextId] = [pc |-> "scheduled", old |-> {},
                                                        cutoff_time |-> None]]
                /\ resp' = [op |-> "push_news", code |-> 200, id |-> nextId,
                            calls |-> calls, req |-> req]
                /\ ingested' = (nextId :> req) @@ ingested
    /\ UNCHANGED <<now, enable_ai_analysis>>

-----------------------------------------------------------------------------
(* The background cleanup pass, cleanup_old_news.  Handlers run on the     *)
(* event loop one at a time; a pass runs in the thread pool, so its two    *)
(* database round trips interleave with handlers and with other passes.    *)

\* variant: a row exactly at the cutoff is selected too
cleanup_select_inclusive(t) ==
    /\ Idle
    /\ tasks[t].pc = "scheduled"
    /\ LET cutoff_time == now - news_retention_hours
           old_news == {n \in store : n.received_at <= cutoff_time}
       IN  tasks' = [tasks EXCEPT ![t] = [pc |-> "selected",
                                          old |-> {n.id : n \in old_news},
                                          cutoff_time |-> Some(cutoff_time)]]
    /\ UNCHANGED <<store, nextId, now, enable_ai_analysis, resp, ingested>>

\* variant: the SELECT returns only the first of the expired rows
cleanup_select_first(t) ==
    /\ Idle
    /\ tasks[t].pc = "scheduled"
    /\ LET cutoff_time == now - news_retention_hours
           old_news == {n \in store : /\ n.received_at < cutoff_time
                                       /\ \A m \in store :
                                             m.received_at < cutoff_time => n.id <= m.id}
       IN  tasks' = [tasks EXCEPT ![t] = [pc |-> "selected",
                                          old |-> {n.id : n \in old_news},
                                          cutoff_time |-> Some(cutoff_time)]]
    /\ UNCHANGED <<store, nextId, now, enable_ai_analysis, resp, ingested>>

\* the SELECT: rows older than the cutoff, as the pass sees them
cleanup_select(t) ==
    /\ Idle
    /\ tasks[t].pc = "scheduled"
    /\ LET cutoff_time == now - news_retention_hours
           old_news == {n \in store : n.received_at < cutoff_time}
       IN  tasks' = [tasks EXCEPT ![t] = [pc |-> "selected",
                                          old |-> {n.id : n \in old_news},
                                          cutoff_time |-> Some(cutoff_time)]]
    /\ UNCHANGED <<store, nextId, now, enable_ai_analysis, resp, ingested>>

\* variant: the commit deletes by the clock at the commit, not by the
\* cutoff the pass computed
cleanup_commit_recomputed(t) ==
    /\ Idle
    /\ tasks[t].pc = "selected"
    /\ store' = {n \in store : n.received_at >= now - news_retention_hours}
    /\ tasks' = [tasks EXCEPT ![t] = IdleTask]
    /\ ingested' = [i \in {n.id : n \in store'} |-> ingested[i]]
    /\ UNCHANGED <<nextId, now, enable_ai_analysis, resp>>

\* session.delete of each selected row, flushed by session.commit()
cleanup_commit(t) ==
    /\ Idle
    /\ tasks[t].pc = "selected"
    /\ store' = {n \in store : n.id \notin tasks[t].old}
    /\ tasks' = [tasks EXCEPT ![t] = IdleTask]
    /\ ingested' = [i \in {n.id : n \in store'} |-> ingested[i]]
    /\ UNCHANGED <<nextId, now, enable_ai_analysis, resp>>

\* variant: the rollback of a failed pass also undoes the insert of the
\* request that scheduled it
cleanup_fail_shared_transaction(t) ==
    /\ Idle
    /\ tasks[t].pc \in {"scheduled", "selected"}
    /\ store' = {n \in store : n.id # t}
    /\ tasks' = [tasks EXCEPT ![t] = [pc |-> "failed", old |-> {},
                                       cutoff_time |-> None]]
    /\ ingested' = [i \in {n.id : n \in store'} |-> ingested[i]]
    /\ UNCHANGED <<nextId, now, enable_ai_analysis, resp>>

\* an exception inside the pass: logged, session.rollback()
cleanup_fail(t) ==
    /\ Idle
    /\ tasks[t].pc \in {"scheduled", "selected"}
    /\ tasks' = [tasks EXCEPT ![t] = [pc |-> "failed", old |-> {},
                                       cutoff_time |-> None]]
    /\ UNCHANGED <<store, nextId, now, enable_ai_analysis, resp, ingested>>

-----------------------------------------------------------------------------
(* Time *)

Tick ==
    /\ Idle
    /\ now < MaxTicks * TickHours
    /\ now' = now + TickHours
    /\ UNCHANGED <<store, nextId, enable_ai_analysis, tasks, resp, ingested>>

-----------------------------------------------------------------------------
(* Query helpers *)

\* the orders in which a SELECT may return the rows of a set
Orders(rows) ==
    {o \in [1..Cardinality(rows) -> rows] :
        \A i, j \in 1..Cardinality(rows) : i # j => o[i] # o[j]}

\* ORDER BY received_at DESC
ByRecency(o) ==
    \A i, j \in 1..Len(o) : i < j => o[i].received_at >= o[j].received_at

\* OFFSET offset LIMIT limit
Page(o, offset, limit) ==
    SubSeq(o, offset + 1, IF offset + limit < Len(o) THEN offset + limit ELSE Len(o))

\* NewsItemResponse / NewsItemDetailResponse of a row
ResponseItem(n) ==
    [id |-> n.id, title |-> n.title, summary |-> n.summary,
     sentiment |-> n.sentiment, sentiment_score |-> n.sentiment_score,
     mentioned_coins |-> get_mentioned_coins_list(n.mentioned_coins),
     source_url |-> n.source_url, received_at |-> n.received_at,
     is_major |-> n.is_major, original_content |-> n.original_content]

\* total_pages of get_news
TotalPages(total, page_size) ==
    IF total > 0 THEN (total + page_size - 1) \div page_size ELSE 0

\* The relevance MATCH(title, original_content, summary) AGAINST(term)
\* gives a row: positive exactly for the rows the index matches.  The
\* number of matching columns stands for MySQL's score.
Relevance(n, term) ==
    (IF Like(n.title, term) THEN 1 ELSE 0)
    + (IF Like(n.original_content, term) THEN 1 ELSE 0)
    + (IF Like(n.summary, term) THEN 1 ELSE 0)

\* ORDER BY relevance DESC, received_at DESC
ByRelevance(o, term) ==
    \A i, j \in 1..Len(o) : i < j =>
        \/ Relevance(o[i], term) > Relevance(o[j], term)
        \/ /\ Relevance(o[i], term) = Relevance(o[j], term)
           /\ o[i].received_at >= o[j].received_at

\* title LIKE p OR original_content LIKE p OR summary LIKE p
LikeAny(n, term) ==
    \/ Like(n.title, term)
    \/ Like(n.original_content, term)
    \/ Like(n.summary, term)

-----------------------------------------------------------------------------
(* GET /get_news *)

\* What  NewsItem.received_at >= cutoff_time  does when cutoff_time is
\* None: SQLAlchemy refuses an ordering comparison with None
\* (ArgumentError); emitted as SQL, received_at >= NULL is UNKNOWN for
\* every row, so the WHERE clause selects none.
NoneComparisons == {"ArgumentError", "unknown"}

\* the rows  WHERE received_at >= cutoff_time  selects
SinceCutoff(cutoff_time) ==
    IF IsNone(cutoff_time) THEN {}
    ELSE {n \in store : n.received_at >= Get(cutoff_time)}

ListResponse(req, o, total) ==
    [op |-> "get_news", code |-> 200, req |-> req,
     items |-> [i \in 1..Len(o) |-> ResponseItem(o[i])],
     total |-> total, page |-> req.page, page_size |-> req.page_size,
     total_pages |-> TotalPages(total, req.page_size)]

ListError(req) == [op |-> "get_news", code |-> 500, req |-> req]

\* WHERE MATCH(...) AGAINST(term): the rows the index matches
FulltextRows(term) == {n \in store : Relevance(n, term) > 0}

\* The rows fulltext_search selects and counts: with a threshold above 0
\* the matching rows HAVING relevance >= :threshold, otherwise every
\* matching row.
fulltext_search(search_term, relevance_threshold) ==
    IF ~IsNone(relevance_threshold) /\ Get(relevance_threshold) > 0
    THEN {n \in FulltextRows(search_term) :
            Relevance(n, search_term) >= Get(relevance_threshold)}
    ELSE FulltextRows(search_term)

\* the two ORM queries of get_news (count, then ordered page) over the
\* rows that pass the cutoff filter and, when searching, the LIKE filter
OrmList(req, rows, noneCmp) ==
    IF IsNone(req.cutoff_time) /\ noneCmp = "ArgumentError"
    THEN resp' = ListError(req)
    ELSE \E o \in Orders(rows) :
            /\ ByRecency(o)
            /\ resp' = ListResponse(req,
                          Page(o, (req.page - 1) * req.page_size, req.page_size),
                          Cardinality(rows))

\* search: Optional[str]; relevance_threshold: Optional[float], in the
\* units of Relevance; ftOk: whether the full-text statement executes;
\* noneCmp: see NoneComparisons
get_news(search, relevance_threshold, page, page_size, ftOk, noneCmp) ==
    /\ Idle
    /\ LET cutoff_time == None
           req == [search |-> search, relevance_threshold |-> relevance_threshold,
                   page |-> page, page_size |-> page_size,
                   cutoff_time |-> cutoff_time, fulltext |-> ftOk]
       IN  IF ~IsNone(search) /\ Get(search) # << >>
           THEN IF ftOk
                THEN \* fulltext_search(session, search, cutoff_time, page,
                     \* page_size): relevance_threshold keeps its default,
                     \* None; ranked by relevance
                     LET ft_rows == fulltext_search(Get(search), None)
                     IN  \E o \in Orders(ft_rows) :
                            /\ ByRelevance(o, Get(search))
                            /\ resp' = ListResponse(req,
                                          Page(o, (page - 1) * page_size, page_size),
                                          Cardinality(ft_rows))
                ELSE \* fall back to LIKE
                     OrmList(req,
                             {n \in SinceCutoff(cutoff_time) : LikeAny(n, Get(search))},
                             noneCmp)
           ELSE OrmList(req, SinceCutoff(cutoff_time), noneCmp)
    /\ UNCHANGED <<store, nextId, now, enable_ai_analysis, tasks, ingested>>

-----------------------------------------------------------------------------
(* GET /get_new_detail/{news_id} *)

\* variant: the not-found error is caught by the generic handler
get_new_detail_generic(news_id) ==
    /\ Idle
    /\ LET found == {n \in store : n.id = news_id}
       IN  IF found = {}
           THEN resp' = [op |-> "get_new_detail", code |-> 500, news_id |-> news_id]
           ELSE resp' = [op |-> "get_new_detail", code |-> 200, news_id |-> news_id,
                         item |-> ResponseItem(CHOOSE n \in found : TRUE)]
    /\ UNCHANGED <<store, nextId, now, enable_ai_analysis, tasks, ingested>>

get_new_detail(news_id) ==
    /\ Idle
    /\ LET found == {n \in store : n.id = news_id}
       IN  IF found = {}
           THEN resp' = [op |-> "get_new_detail", code |-> 404, news_id |-> news_id]
           ELSE resp' = [op |-> "get_new_detail", code |-> 200, news_id |-> news_id,
                         item |-> ResponseItem(CHOOSE n \in found : TRUE)]
    /\ UNCHANGED <<store, nextId, now, enable_ai_analysis, tasks, ingested>>

-----------------------------------------------------------------------------
(* GET /get_market_sentiment *)

RECURSIVE SumScores(_)
SumScores(o) == IF Len(o) = 0 THEN 0 ELSE Head(o).sentiment_score + SumScores(Tail(o))

\* max(scores) / min(scores)
MaxScore(o) == CHOOSE m \in {o[i].sentiment_score : i \in 1..Len(o)} :
                  \A i \in 1..Len(o) : o[i].sentiment_score <= m
MinScore(o) == CHOOSE m \in {o[i].sentiment_score : i \in 1..Len(o)} :
                  \A i \in 1..Len(o) : o[i].sentiment_score >= m

\* variant: the last row with the score
LastWith(o, score) ==
    o[CHOOSE i \in 1..Len(o) :
         /\ o[i].sentiment_score = score
         /\ \A j \in (i + 1)..Len(o) : o[j].sentiment_score # score]

\* next(news for news in news_items if news.sentiment_score == score)
FirstWith(o, score) ==
    o[CHOOSE i \in 1..Len(o) :
         /\ o[i].sentiment_score = score
         /\ \A j \in 1..(i - 1) : o[j].sentiment_score # score]

\* round(sum / n, 4) in units of 1e-4, for scores in tenths
RoundAvg(sum, n) == (2 * 1000 * sum + n) \div (2 * n)

NeutralAvg == 1000 * DefaultScore

get_market_sentiment ==
    /\ Idle
    /\ LET cutoff_time == now - news_retention_hours
           rows == {n \in store : n.received_at >= cutoff_time}
       IN  \E news_items \in Orders(rows) :
              LET seen == [i \in 1..Len(news_items) |->
                              [id |-> news_items[i].id,
                               sentiment_score |-> news_items[i].sentiment_score]]
              IN
              IF Len(news_items) = 0
              THEN resp' = [op |-> "get_market_sentiment", code |-> 200,
                            cutoff_time |-> cutoff_time, seen |-> seen,
                            market_sentiment_normalized |-> NeutralAvg,
                            news_count |-> 0,
                            max_score |-> None, min_score |-> None,
                            max_score_news_id |-> None, min_score_news_id |-> None]
              ELSE resp' = [op |-> "get_market_sentiment", code |-> 200,
                            cutoff_time |-> cutoff_time, seen |-> seen,
                            market_sentiment_normalized |->
                                RoundAvg(SumScores(news_items), Len(news_items)),
                            news_count |-> Len(news_items),
                            max_score |-> Some(MaxScore(news_items)),
                            min_score |-> Some(MinScore(news_items)),
                            max_score_news_id |->
                                Some(FirstWith(news_items, MaxScore(news_items)).id),
                            min_score_news_id |->
                                Some(FirstWith(news_items, MinScore(news_items)).id)]
    /\ UNCHANGED <<store, nextId, now, enable_ai_analysis, tasks, ingested>>

-----------------------------------------------------------------------------
(* The response leaves the handler *)

Send ==
    /\ resp # NoResponse
    /\ resp' = NoResponse
    /\ UNCHANGED <<store, nextId, now, enable_ai_analysis, tasks, ingested>>

-----------------------------------------------------------------------------
(* Inputs *)

Urls == { <<"u">> }
Titles == { <<"B", "T", "C">>, <<"e", "t", "h">> }
ShortContent == <<"U", "p">>
\* longer than the summary limit, with a last character the summary loses
LongContent == [i \in 1..(SummaryLimit + 1) |-> IF i > SummaryLimit THEN "Z" ELSE "a"]

Json(fields, summary, sentiment, score, coins) ==
    [kind |-> "json", fields |-> fields, summary |-> summary,
     sentiment |-> sentiment, sentiment_score |-> score, mentioned_coins |-> coins]

CoinList(v) == [is_list |-> TRUE, v |-> v]
NotAList == [is_list |-> FALSE, v |-> << >>]
Str(v) == [kind |-> "str", v |-> v]

\* raw scores a response may carry: in range, on a threshold, out of range,
\* NaN, a numeric string
RawScores ==
    {Num(v) : v \in {-5, 1, 2, 3, 4, 5, 6, 7, 8, 9, 15}} \cup {NaN, Str(9), Str(15)}

FailedCalls ==
    {[kind |-> "transport_error"], [kind |-> "bad_json"]}
    \cup {Json(RequiredFields \ {f}, <<"o", "k">>, "neutral", Num(5), CoinList(<< >>)) :
            f \in RequiredFields}

\* the classifier outcomes of SpecIngest
IngestApis ==
    FailedCalls
    \cup {Json(RequiredFields, <<"o", "k">>, "bullish", sc, CoinList(<<"BTC">>)) :
            sc \in RawScores}
    \cup {Json(RequiredFields, <<"o", "k">>, "positive", sc, CoinList(<<"BTC">>)) :
            sc \in {Num(3), NaN, Str(9), Str(15)}}
    \cup {Json(RequiredFields, <<"o", "k">>, "negative", Num(5), c) :
            c \in {CoinList(<< >>), CoinList(<<"BTC", "ETH">>), NotAList}}

\* the classifier outcomes of the other specifications
ScoredApis(scores) ==
    {[kind |-> "transport_error"]}
    \cup {Json(RequiredFields, <<"o", "k">>, "neutral", Num(v), CoinList(<<"BTC">>)) :
            v \in scores}

\* the (content, classifier outcome) pairs of SpecIngest
Submissions ==
    IF enable_ai_analysis
    THEN ({ShortContent} \X IngestApis)
         \cup {<<LongContent, Json(RequiredFields, <<"o", "k">>, "negative", Num(5),
                                   CoinList(<< >>))>>}
    ELSE {ShortContent, LongContent} \X {NotCalled}

ApiChoice(apis) == IF enable_ai_analysis THEN apis ELSE {NotCalled}

Searches ==
    {None, Some(<< >>), Some(<<"b", "t", "c">>), Some(<<"u", "P">>),
     Some(<<"o">>), Some(<<"x">>)}

\* relevance_threshold: absent, and a value some matching rows miss
Thresholds == {None, Some(2)}

-----------------------------------------------------------------------------
(* Specifications *)

\* every operation, on small inputs
Next ==
    \/ Send
    \/ \E api \in ApiChoice(ScoredApis({2, 9})), dbOk \in BOOLEAN :
          nextId <= StoreItems /\ push_news(<<"B", "T", "C">>, ShortContent, <<"u">>, api, dbOk)
    \/ \E t \in Ids : cleanup_select(t)
    \/ \E t \in Ids : cleanup_commit(t)
    \/ \E t \in Ids : cleanup_fail(t)
    \/ \E search \in {None, Some(<<"b", "t", "c">>)}, ftOk \in BOOLEAN,
          noneCmp \in NoneComparisons :
          get_news(search, None, 1, 1, ftOk, noneCmp)
    \/ \E news_id \in 0..(MaxItems + 1) : get_new_detail(news_id)
    \/ get_market_sentiment
    \/ Tick

Spec == Init /\ [][Next]_vars

\* ingestion on every classifier outcome, and the detail read
NextIngest ==
    \/ Send
    \/ \E sub \in Submissions, dbOk \in BOOLEAN :
          nextId <= IngestItems /\ push_news(<<"B", "T", "C">>, sub[1], <<"u">>, sub[2], dbOk)
    \/ \E t \in Ids : cleanup_select(t)
    \/ \E t \in Ids : cleanup_commit(t)
    \/ \E t \in Ids : cleanup_fail(t)
    \/ \E news_id \in 0..(MaxItems + 1) : get_new_detail(news_id)
    \/ Tick

SpecIngest == Init /\ [][NextIngest]_vars

\* listing, searching and paging
NextList ==
    \/ Send
    \/ \E title \in Titles, api \in ApiChoice(ScoredApis({5})), dbOk \in BOOLEAN :
          nextId <= ListItems /\ push_news(title, ShortContent, <<"u">>, api, dbOk)
    \/ \E t \in Ids : cleanup_select(t)
    \/ \E t \in Ids : cleanup_commit(t)
    \/ \E t \in Ids : cleanup_fail(t)
    \/ \E search \in Searches, relevance_threshold \in Thresholds,
          page \in 1..MaxPage, page_size \in 1..MaxPageSize,
          ftOk \in BOOLEAN, noneCmp \in NoneComparisons :
          get_news(search, relevance_threshold, page, page_size, ftOk, noneCmp)
    \/ Tick

SpecList == Init /\ [][NextList]_vars

\* the sentiment aggregate
NextSentiment ==
    \/ Send
    \/ \E api \in ApiChoice(ScoredApis({1, 2})), dbOk \in BOOLEAN :
          push_news(<<"B", "T", "C">>, ShortContent, <<"u">>, api, dbOk)
    \/ \E t \in Ids : cleanup_select(t)
    \/ \E t \in Ids : cleanup_commit(t)
    \/ \E t \in Ids : cleanup_fail(t)
    \/ get_market_sentiment
    \/ Tick

SpecSentiment == Init /\ [][NextSentiment]_vars

\* Ingestion and the background passes it schedules.  A response that is
\* ready is sent.  The thread pool runs every scheduled pass and lets it
\* finish however many requests the event loop handles meanwhile: a step
\* of a pass waits only while a handler is running, so its fairness is
\* strong.
NextCleanup ==
    \/ Send
    \/ \E api \in ApiChoice(ScoredApis({5})), dbOk \in BOOLEAN :
          nextId <= CleanupItems /\ push_news(<<"B", "T", "C">>, ShortContent, <<"u">>, api, dbOk)
    \/ \E t \in Ids : cleanup_select(t)
    \/ \E t \in Ids : cleanup_commit(t)
    \/ \E t \in Ids : cleanup_fail(t)
    \/ Tick

SpecCleanup ==
    /\ Init
    /\ [][NextCleanup]_vars
    /\ WF_vars(Send)
    /\ \A t \in 1..CleanupItems :
          SF_vars(cleanup_select(t) \/ cleanup_commit(t) \/ cleanup_fail(t))

-----------------------------------------------------------------------------
(* Properties *)

RowIds == {n.id : n \in store}
Row(id) == CHOOSE n \in store : n.id = id

\* C1: every persisted row is flagged major exactly when its score is below
\* the low threshold or above the high one (a score on a threshold is not
\* major), and no step changes the flag of a row that stays.
C1_MajorFlag ==
    /\ [](\A n \in store :
            n.is_major <=> (\/ n.sentiment_score < major_news_threshold_low
                            \/ n.sentiment_score > major_news_threshold_high))
    /\ [][\A n \in store : \A m \in store' :
            m.id = n.id => m.is_major = n.is_major]_vars

\* a row on the low threshold, not flagged
C1_Witness ==
    \E n \in store : n.sentiment_score = major_news_threshold_low /\ ~n.is_major

\* a row on the high threshold, not flagged
C1_WitnessHigh ==
    \E n \in store : n.sentiment_score = major_news_threshold_high /\ ~n.is_major

\* a clamped score, flagged
C1_WitnessMajor ==
    \E n \in store : n.sentiment_score = ScoreMax /\ n.is_major

\* the classifier call failed: transport error, unparsable body, or a
\* required field missing
ClassifierFails(api) ==
    \/ api.kind \in {"transport_error", "bad_json"}
    \/ api.kind = "json" /\ ~(RequiredFields \subseteq api.fields)

\* C2: with AI analysis enabled, a push whose classifier call fails ends in
\* 500 after exactly one classifier call and leaves the table as it was.
C2_FailedClassification ==
    [][(/\ resp'.op = "push_news"
        /\ enable_ai_analysis
        /\ ClassifierFails(resp'.req.api))
       => (/\ resp'.code = 500
           /\ resp'.calls = 1
           /\ store' = store
           /\ nextId' = nextId)]_vars

\* a response lacking a field was refused
C2_Witness ==
    /\ resp.op = "push_news"
    /\ resp.code = 500
    /\ enable_ai_analysis
    /\ resp.req.api.kind = "json"
    /\ ~(RequiredFields \subseteq resp.req.api.fields)

\* the label the rule gives a stored score
RuleLabel(score) ==
    IF score > PositiveAbove THEN "positive"
    ELSE IF score < NegativeBelow THEN "negative"
    ELSE "neutral"

\* C3: a row stored through the classifier has a score within [0, 1] and a
\* canonical label, and when the classifier's label was not canonical the
\* stored label is the one the rule gives the stored score.
C3_NormalizedAnalysis ==
    (resp.op = "push_news" /\ resp.code = 200 /\ enable_ai_analysis)
    => LET n == Row(resp.id)
       IN  /\ n.sentiment_score >= ScoreMin
           /\ n.sentiment_score <= ScoreMax
           /\ n.sentiment \in CanonicalSentiments
           /\ resp.req.api.sentiment \notin CanonicalSentiments
                => n.sentiment = RuleLabel(n.sentiment_score)

\* C4: a step leaves every row as it is, or removes it in the commit of a
\* cleanup pass that selected it, and then the row is older than the
\* retention window at that moment.
C4_RowsOnlyExpire ==
    [][\A n \in store :
          \/ n \in store'
          \/ /\ \A m \in store' : m.id # n.id
             /\ \E t \in Ids : /\ tasks[t].pc = "selected"
                               /\ n.id \in tasks[t].old
                               /\ tasks'[t].pc = "idle"
             /\ n.received_at < now - news_retention_hours]_vars

\* a row has been deleted while a row exactly at the cutoff is kept
C4_Witness ==
    /\ \E i \in 1..(nextId - 1) : i \notin RowIds
    /\ \E n \in store : n.received_at = now - news_retention_hours
    /\ \A t \in Ids : tasks[t].pc = "idle"

\* C5: the detail of a live row returns what was submitted, and the
\* derived fields ingestion computed: the normalized analysis with AI
\* enabled; otherwise the first 200 characters of the content, neutral,
\* 0.5, no coins, not major.
C5_RoundTrip ==
    (resp.op = "get_new_detail" /\ resp.code = 200)
    => LET sub == ingested[resp.news_id]
           it == resp.item
       IN  /\ it.id = resp.news_id
           /\ it.title = sub.title
           /\ it.original_content = sub.content
           /\ it.source_url = sub.source_url
           /\ IF enable_ai_analysis
              THEN LET a == analyze_news(sub.api)
                   IN  /\ it.summary = a.summary
                       /\ it.sentiment = a.sentiment
                       /\ it.sentiment_score = a.sentiment_score.v
                       /\ it.mentioned_coins = a.mentioned_coins
              ELSE /\ it.summary = [i \in 1..(IF Len(sub.content) < 200
                                              THEN Len(sub.content) ELSE 200)
                                     |-> sub.content[i]]
                   /\ it.sentiment = "neutral"
                   /\ it.sentiment_score = 5
                   /\ it.mentioned_coins = << >>
                   /\ it.is_major = FALSE

\* a content longer than 200 characters read back with AI disabled
C5_Witness ==
    /\ resp.op = "get_new_detail"
    /\ resp.code = 200
    /\ ~enable_ai_analysis
    /\ Len(resp.item.original_content) > 200
    /\ Len(resp.item.summary) = 200

\* two coins read back with AI enabled
C5_WitnessCoins ==
    /\ resp.op = "get_new_detail"
    /\ resp.code = 200
    /\ enable_ai_analysis
    /\ Len(resp.item.mentioned_coins) = 2


\* the ids of a response's items, in order
ItemIds(items) == [i \in 1..Len(items) |-> items[i].id]

\* the number of items page `page` of `total` results holds
PageLen(total, page, page_size) ==
    LET left == total - (page - 1) * page_size
    IN  IF left <= 0 THEN 0 ELSE IF left < page_size THEN left ELSE page_size

\* the items are distinct rows of `rows`, most recent first
RecentFirst(items, rows) ==
    /\ \A i \in 1..Len(items) : \E n \in rows : ResponseItem(n) = items[i]
    /\ \A i, j \in 1..Len(items) :
          i < j => items[i].id # items[j].id /\ items[i].received_at >= items[j].received_at

\* C6: a listing without a search term counts every persisted row, whatever
\* its age, and returns rows most recent first.
C6_ListsEverything ==
    (resp.op = "get_news" /\ IsNone(resp.req.search))
    => /\ resp.code = 200
       /\ resp.total = Cardinality(store)
       /\ RecentFirst(resp.items, store)
       /\ Len(resp.items) = PageLen(resp.total, resp.req.page, resp.req.page_size)

\* C7: a listing returns total_pages = ceil(total / page_size) (0 for no
\* results), the items of the requested page and no more than page_size of
\* them, and an empty page past the last one.
C7_Pagination ==
    resp.op = "get_news"
    => /\ resp.code = 200
       /\ resp.total_pages * resp.req.page_size >= resp.total
       /\ (resp.total_pages - 1) * resp.req.page_size < resp.total
       /\ resp.total = 0 => resp.total_pages = 0
       /\ Len(resp.items) = PageLen(resp.total, resp.req.page, resp.req.page_size)
       /\ resp.req.page > resp.total_pages => resp.items = << >>

\* the rows in which the term occurs, case-insensitively, in the title, the
\* content or the summary
NaiveMatch(term) ==
    {n \in store : \/ Contains(LowerStr(n.title), LowerStr(term))
                   \/ Contains(LowerStr(n.original_content), LowerStr(term))
                   \/ Contains(LowerStr(n.summary), LowerStr(term))}

HasTerm(search) == ~IsNone(search) /\ Get(search) # << >>

\* C8: when the full-text statement fails, a search returns the rows the
\* naive substring predicate selects, counted and paged, most recent first.
C8_SearchFallback ==
    (resp.op = "get_news" /\ HasTerm(resp.req.search) /\ ~resp.req.fulltext)
    => /\ resp.code = 200
       /\ resp.total = Cardinality(NaiveMatch(Get(resp.req.search)))
       /\ RecentFirst(resp.items, NaiveMatch(Get(resp.req.search)))
       /\ Len(resp.items) = PageLen(resp.total, resp.req.page, resp.req.page_size)

\* On the full-text path the page arithmetic of C7 holds.
FulltextPagination ==
    (resp.op = "get_news" /\ HasTerm(resp.req.search) /\ resp.req.fulltext)
    => /\ resp.code = 200
       /\ resp.total = Cardinality(NaiveMatch(Get(resp.req.search)))
       /\ resp.total_pages * resp.req.page_size >= resp.total
       /\ (resp.total_pages - 1) * resp.req.page_size < resp.total
       /\ resp.total = 0 => resp.total_pages = 0
       /\ Len(resp.items) = PageLen(resp.total, resp.req.page, resp.req.page_size)
       /\ resp.req.page > resp.total_pages => resp.items = << >>

\* the rows received within the retention window
Window == {n \in store : n.received_at >= now - news_retention_hours}

\* C9: the sentiment aggregate covers exactly the rows of the window: none
\* gives 0.5, count 0 and no extrema; otherwise the count, the largest and
\* smallest score, the mean rounded to 4 decimals, and as max / min id the
\* first row in iteration order holding the extreme score.
C9_MarketSentiment ==
    resp.op = "get_market_sentiment"
    => /\ resp.code = 200
       /\ resp.news_count = Cardinality(Window)
       /\ {resp.seen[i].id : i \in 1..Len(resp.seen)} = {n.id : n \in Window}
       /\ \A i \in 1..Len(resp.seen) :
             resp.seen[i].sentiment_score = Row(resp.seen[i].id).sentiment_score
       /\ IF Window = {}
          THEN /\ resp.market_sentiment_normalized = 5000
               /\ IsNone(resp.max_score) /\ IsNone(resp.min_score)
               /\ IsNone(resp.max_score_news_id) /\ IsNone(resp.min_score_news_id)
          ELSE LET n == Cardinality(Window)
                   avg == resp.market_sentiment_normalized
                   sum == SumScores(resp.seen)
                   mx == Get(resp.max_score)
                   mn == Get(resp.min_score)
                   FirstId(score) ==
                       resp.seen[CHOOSE i \in 1..Len(resp.seen) :
                                    /\ resp.seen[i].sentiment_score = score
                                    /\ \A j \in 1..(i - 1) :
                                          resp.seen[j].sentiment_score # score].id
               IN  /\ \E w \in Window : w.sentiment_score = mx
                   /\ \A w \in Window : w.sentiment_score <= mx
                   /\ \E w \in Window : w.sentiment_score = mn
                   /\ \A w \in Window : w.sentiment_score >= mn
                   \* avg is the multiple of 1e-4 nearest to sum / n
                   /\ 2 * (avg * n - 1000 * sum) <= n
                   /\ 2 * (1000 * sum - avg * n) <= n
                   /\ Get(resp.max_score_news_id) = FirstId(mx)
                   /\ Get(resp.min_score_news_id) = FirstId(mn)

\* three rows of which one is outside the window and the other two tie,
\* the later-inserted one coming first in iteration order
C9_Witness ==
    /\ resp.op = "get_market_sentiment"
    /\ Cardinality(store) = 3
    /\ resp.news_count = 2
    /\ resp.max_score = resp.min_score
    /\ resp.seen[1].id > resp.seen[2].id
    /\ resp.max_score_news_id = Some(resp.seen[1].id)

\* a mean that needs rounding up
C9_WitnessRounding ==
    /\ resp.op = "get_market_sentiment"
    /\ resp.news_count = 3
    /\ resp.market_sentiment_normalized * 3 > 1000 * SumScores(resp.seen)

\* C10: the detail read answers 404 exactly when no row has the id, 200
\* with that row otherwise, never 500, and leaves the table unchanged.
C10_DetailNotFound ==
    /\ [](resp.op = "get_new_detail"
            => /\ resp.code = 404 <=> resp.news_id \notin RowIds
               /\ resp.code = 200 <=> resp.news_id \in RowIds
               /\ resp.code = 200 => resp.item = ResponseItem(Row(resp.news_id)))
    /\ [][resp'.op = "get_new_detail" => store' = store]_vars

\* 404 for the id of a row a cleanup pass deleted
C10_Witness ==
    /\ resp.op = "get_new_detail"
    /\ resp.code = 404
    /\ resp.news_id \in 1..(nextId - 1)

\* 404 for an id that was never assigned
C10_WitnessUnassigned ==
    /\ resp.op = "get_new_detail"
    /\ resp.code = 404
    /\ resp.news_id >= nextId
    /\ store # {}


\* the rows older than the retention window at the current clock
Stale == {n \in store : n.received_at < now - news_retention_hours}

\* the pass of task t ends in its except branch in this step
Fails(t) == tasks[t].pc # "failed" /\ tasks'[t].pc = "failed"

\* C11: a pass that fails does so after the response of the ingestion
\* that scheduled it was sent; the failing step leaves the table exactly
\* as it was (the new row included, no expired row deleted), produces no
\* response and raises nothing, and only a pass of a successful ingestion
\* can fail.
C11_CleanupFailure ==
    /\ []((resp.op = "push_news" /\ resp.code = 200)
            => /\ resp.id \in RowIds
               /\ tasks[resp.id].pc = "scheduled")
    /\ [](\A t \in Ids : tasks[t].pc = "failed" => t < nextId)
    /\ [][\A t \in Ids :
            Fails(t) => /\ tasks[t].pc \in {"scheduled", "selected"}
                        /\ resp = NoResponse
                        /\ resp' = resp
                        /\ store' = store
                        /\ nextId' = nextId]_vars

\* a pass has failed after the clock made an earlier row expire: the row
\* it came with and the expired row are both still stored
C11_Witness ==
    \E t \in Ids :
        /\ tasks[t].pc = "failed"
        /\ t \in RowIds
        /\ Stale # {}
        /\ Row(t) \notin Stale

\* the pass of task t commits in this step
Commits(t) == tasks[t].pc = "selected" /\ tasks'[t].pc = "idle"

\* C12: whatever runs between the SELECT of a pass and its commit, the
\* rows the pass holds are, among the rows stored, exactly those older
\* than its cutoff (no row at or after the cutoff, no row inserted since);
\* its commit has the effect of one atomic delete-where-older-than with
\* that cutoff on the table as it is then, so the passes and insertions
\* are serial in the order of their commits; and no other step removes a
\* row.
C12_ConcurrentCleanup ==
    /\ [](\A t \in Ids : tasks[t].pc = "selected" =>
            /\ Get(tasks[t].cutoff_time) <= now - news_retention_hours
            /\ \A n \in store :
                  n.id \in tasks[t].old <=> n.received_at < Get(tasks[t].cutoff_time))
    /\ [][\A t \in Ids :
            Commits(t) =>
               store' = {n \in store : n.received_at >= Get(tasks[t].cutoff_time)}]_vars
    /\ [][(\A t \in Ids : ~Commits(t)) => store \subseteq store']_vars

\* a pass stands between its SELECT and its commit while another pass has
\* already deleted a row it selected and a later ingestion has added a row
C12_Witness ==
    \E t \in Ids :
        /\ tasks[t].pc = "selected"
        /\ \E i \in tasks[t].old : i \notin RowIds
        /\ \E n \in store : n.id > t

\* a pass has committed next to a row inserted after it was scheduled: the
\* expired row is gone and the later row is kept
C12_WitnessCommitted ==
    \E t \in Ids :
        /\ tasks[t].pc = "idle"
        /\ t < nextId
        /\ t \notin RowIds
        /\ \E n \in store : n.id > t
        /\ \E u \in Ids : u > t /\ tasks[u].pc = "scheduled"

\* no pass is scheduled or running
NonePending == \A t \in Ids : tasks[t].pc \in {"idle", "failed"}

\* C13: a pass becomes scheduled only in the step of a successful
\* ingestion, which schedules exactly the pass of its new row, and the
\* response is ready while that pass has not started; a scheduled pass
\* eventually runs and ends; its cutoff is the clock at its SELECT minus
\* the retention window, and when it commits no row older than that
\* cutoff is left; while no pass is pending and nothing is ingested the
\* table does not change, so an expired row stays.
C13_CleanupScheduling ==
    /\ [][\A t \in Ids :
            (tasks[t].pc # "scheduled" /\ tasks'[t].pc = "scheduled")
            => /\ resp = NoResponse
               /\ resp'.op = "push_news" /\ resp'.code = 200 /\ resp'.id = t
               /\ tasks[t].pc = "idle"
               /\ \A u \in Ids \ {t} : tasks'[u] = tasks[u]]_vars
    /\ [][(resp = NoResponse /\ resp'.op = "push_news" /\ resp'.code = 200)
            => /\ resp'.id \in {n.id : n \in store'}
               /\ resp'.id \notin RowIds
               /\ tasks'[resp'.id].pc = "scheduled"]_vars
    /\ [][\A t \in Ids :
            (tasks'[t] # tasks[t] /\ tasks'[t].pc # "scheduled")
            => resp = NoResponse /\ resp' = NoResponse]_vars
    /\ [][\A t \in Ids :
            (tasks[t].pc = "scheduled" /\ tasks'[t].pc = "selected")
            => tasks'[t].cutoff_time = Some(now - news_retention_hours)]_vars
    /\ [][\A t \in Ids :
            Commits(t) => \A n \in store' :
                             n.received_at >= Get(tasks[t].cutoff_time)]_vars
    /\ [][(NonePending /\ nextId' = nextId)
            => (store' = store /\ NonePending')]_vars
    /\ \A t \in 1..CleanupItems :
          (tasks[t].pc = "scheduled") ~> (tasks[t].pc \in {"idle", "failed"})

\* a pass has run to its commit: a row that had expired is gone and no
\* expired row is left
C13_Witness ==
    \E t \in Ids :
        /\ t \in RowIds
        /\ tasks[t].pc = "idle"
        /\ \E i \in 1..(t - 1) : i \notin RowIds
        /\ Stale = {}

\* every scheduled pass has committed, and a row that expired since is
\* still stored
C13_WitnessStale ==
    /\ nextId > 1
    /\ \A t \in Ids : tasks[t].pc = "idle"
    /\ Stale # {}

\* C14: a search with a relevance threshold above 0 that the full-text
\* statement answers returns only items whose relevance reaches the
\* threshold, and its total counts exactly the rows that reach it.
C14_RelevanceThreshold ==
    (/\ resp.op = "get_news"
     /\ HasTerm(resp.req.search)
     /\ resp.req.fulltext
     /\ ~IsNone(resp.req.relevance_threshold)
     /\ Get(resp.req.relevance_threshold) > 0)
    => /\ resp.code = 200
       /\ \A i \in 1..Len(resp.items) :
             Relevance(resp.items[i], Get(resp.req.search))
                >= Get(resp.req.relevance_threshold)
       /\ resp.total =
             Cardinality({n \in store :
                            /\ Relevance(n, Get(resp.req.search)) > 0
                            /\ Relevance(n, Get(resp.req.search))
                                  >= Get(resp.req.relevance_threshold)})

=============================================================================
